---------------------------- MODULE Spec2Model ----------------------------
(***************************************************************************)
(* RC5 block cipher of src/RC5.cpp: template class RC5<w, r, b> with the   *)
(* static functions encode, decode, encodeWords, decodeWords, setupS,      *)
(* packWord, unpackWord, left_shift and right_shift.                       *)
(*                                                                         *)
(* A Word (uint16_t, uint32_t or uint64_t) is kept as its u = w/8 bytes,    *)
(* least significant first: a function 0..u-1 -> 0..255.  Every operator   *)
(* on words computes modulo 2^w, as the unsigned C++ types do.  Arrays are *)
(* functions on 0..n-1, as std::array is indexed.                          *)
(*                                                                         *)
(* One call of encode or decode is a record (its arguments, its locals and *)
(* its position); the variable call holds the calls in progress.  A step   *)
(* is one loop iteration, or the straight-line code between two loops.     *)
(***************************************************************************)
EXTENDS Integers, Sequences, FiniteSets, TLC

VARIABLES call

vars == <<call>>

(***************************************************************************)
(* Bounds of the model.                                                    *)
(***************************************************************************)
\* round counts 0..MaxR of the small instantiations RC5<w, r, b>
MaxR == 1
\* key lengths 0..MaxB of the small instantiations
MaxB == 1
\* key and block byte patterns 0..MaxSeed
MaxSeed == 1

(***************************************************************************)
(* WordT<w>: the magic constants, least significant byte first.            *)
(***************************************************************************)
FromSeq(s) == [k \in 0..(Len(s) - 1) |-> s[k + 1]]

WordT_P(w) ==
    CASE w = 16 -> FromSeq(<<\he1, \hb7>>)
      [] w = 32 -> FromSeq(<<\h63, \h51, \he1, \hb7>>)
      [] w = 64 -> FromSeq(<<\h6b, \h2a, \hed, \h8a, \h62, \h51, \he1, \hb7>>)

WordT_Q(w) ==
    CASE w = 16 -> FromSeq(<<\h37, \h9e>>)
      [] w = 32 -> FromSeq(<<\hb9, \h79, \h37, \h9e>>)
      [] w = 64 -> FromSeq(<<\h15, \h7c, \h4a, \h7f, \hb9, \h79, \h37, \h9e>>)

(***************************************************************************)
(* Constants derived from the cipher's parameters.                         *)
(***************************************************************************)
\* u = ceil(w / 8): w / 8 is an integer division, w is a multiple of 8
u(w) == w \div 8

\* t = 2 * (r + 1), a uint16_t: at most 512
t(r) == (2 * (r + 1)) % 65536

Max(a, b) == IF a >= b THEN a ELSE b

\* c = ceil(max<double>(b, 1) / u), a uint8_t
c(w, b) == ((Max(b, 1) + u(w) - 1) \div u(w)) % 256

(***************************************************************************)
(* Unsigned arithmetic of width w on words.                                *)
(***************************************************************************)
\* the function f on 0..n-1 as an explicit table of its values (@@ makes TLC
\* compute all of them at once)
tab(f, n) == [k \in 0..(n - 1) |-> f[k]] @@ <<>>

size(x) == Cardinality(DOMAIN x)

Zero(w) == tab([k \in 0..(u(w) - 1) |-> 0], u(w))

\* conversion of a small non-negative int (a byte, the literal 3) to Word
ToWord(n, w) == tab([k \in 0..(u(w) - 1) |-> IF k = 0 THEN n % 256 ELSE 0], u(w))

Pow2(n) == 2 ^ n

byteAt(x, k) == IF k \in DOMAIN x THEN x[k] ELSE 0

\* The operators on words bind their operands as the elements a, b of
\* one-element sets and choose the one result: TLC then evaluates each
\* operand once, before the result, however often the result uses it.

\* the three bytes of x from position k on, as one number below 2^24
limb(x, k) == byteAt(x, k) + 256 * byteAt(x, k + 1) + 65536 * byteAt(x, k + 2)

\* x + y + cin, wrapping: added in three limbs of 24 bits, the carry of each
\* limb passed to the next
addc(x, y, cin) ==
    LET s0 == limb(x, 0) + limb(y, 0) + cin
        s1 == limb(x, 3) + limb(y, 3) + (s0 \div 16777216)
        s2 == limb(x, 6) + limb(y, 6) + (s1 \div 16777216)
    IN  tab([k \in DOMAIN x |->
                ((CASE k \div 3 = 0 -> s0 [] k \div 3 = 1 -> s1 [] OTHER -> s2)
                    \div Pow2(8 * (k % 3))) % 256],
            size(x))

\* ~x
wnot(x) == CHOOSE z \in {tab([k \in DOMAIN a |-> 255 - a[k]], size(a)) : a \in {x}} : TRUE

\* x + y, wrapping
wadd(x, y) == CHOOSE z \in {addc(a, b, 0) : a \in {x}, b \in {y}} : TRUE

\* x - y, wrapping: x + ~y + 1
wsub(x, y) == CHOOSE z \in {addc(a, b, 1) : a \in {x}, b \in {wnot(y)}} : TRUE

\* bit j of the byte a
bitOf(a, j) == (a \div Pow2(j)) % 2

\* bit j of a ^ b and of a & b
xorBit(a, b, j) == (bitOf(a, j) + bitOf(b, j)) % 2

andBit(a, b, j) == bitOf(a, j) * bitOf(b, j)

\* a ^ b, a | b, a & b on bytes
bxor(a, b) ==
    ((xorBit(a, b, 0) + (2 * xorBit(a, b, 1)))
     + ((4 * xorBit(a, b, 2)) + (8 * xorBit(a, b, 3))))
    + (((16 * xorBit(a, b, 4)) + (32 * xorBit(a, b, 5)))
       + ((64 * xorBit(a, b, 6)) + (128 * xorBit(a, b, 7))))

band(a, b) ==
    ((andBit(a, b, 0) + (2 * andBit(a, b, 1)))
     + ((4 * andBit(a, b, 2)) + (8 * andBit(a, b, 3))))
    + (((16 * andBit(a, b, 4)) + (32 * andBit(a, b, 5)))
       + ((64 * andBit(a, b, 6)) + (128 * andBit(a, b, 7))))

\* a | b = (a ^ b) + (a & b)
bor(a, b) == bxor(a, b) + band(a, b)

\* x ^ y, x | y, x & y
wxor(x, y) ==
    CHOOSE z \in {tab([k \in DOMAIN a |-> bxor(a[k], b[k])], size(a)) :
                     a \in {x}, b \in {y}} : TRUE

wor(x, y) ==
    CHOOSE z \in {tab([k \in DOMAIN a |-> bor(a[k], b[k])], size(a)) :
                     a \in {x}, b \in {y}} : TRUE

wand(x, y) ==
    CHOOSE z \in {tab([k \in DOMAIN a |-> band(a[k], b[k])], size(a)) :
                     a \in {x}, b \in {y}} : TRUE

\* x << n and x >> n with zero fill, the result truncated to the word
shl(x, n) ==
    CHOOSE z \in {tab([k \in DOMAIN a |->
                         ((byteAt(a, k - q) % Pow2(8 - s)) * Pow2(s))
                         + (byteAt(a, k - q - 1) \div Pow2(8 - s))], size(a)) :
                     a \in {x}, q \in {n \div 8}, s \in {n % 8}} : TRUE

shr(x, n) ==
    CHOOSE z \in {tab([k \in DOMAIN a |->
                         (byteAt(a, k + q) \div Pow2(s))
                         + ((byteAt(a, k + q + 1) % Pow2(s)) * Pow2(8 - s))], size(a)) :
                     a \in {x}, q \in {n \div 8}, s \in {n % 8}} : TRUE

\* y & (w - 1) as a number: w is a power of two not above 64
rotCount(y, w) == y[0] % w

(***************************************************************************)
(* A shift by the full width.  For w = 16 the operand is promoted to int   *)
(* and the shift by 16 is defined: no bit of it reaches the 16-bit result. *)
(* For w = 32 and w = 64 the shift amount equals the width of the operand, *)
(* which is undefined: a build either yields 0 ("zero") or shifts by the   *)
(* amount modulo the width, that is by 0 ("wrap").                         *)
(***************************************************************************)
ShiftOutcomes == {"zero", "wrap"}

shiftByWidth(x, w, ub) == IF w = 16 \/ ub = "zero" THEN Zero(w) ELSE x

\* the shift amounts one call of left_shift / right_shift evaluates
shiftAmounts(y, w) == {rotCount(y, w), w - rotCount(y, w)}

\* x << (y & (w - 1)) | x >> (w - (y & (w - 1)))
left_shift(x, y, w, ub) ==
    CHOOSE z \in {wor(shl(a, n), IF w - n < w THEN shr(a, w - n)
                                  ELSE shiftByWidth(a, w, ub)) :
                     a \in {x}, n \in {rotCount(y, w)}} : TRUE

\* x >> (y & (w - 1)) | x << (w - (y & (w - 1)))
right_shift(x, y, w, ub) ==
    CHOOSE z \in {wor(shr(a, n), IF w - n < w THEN shl(a, w - n)
                                  ELSE shiftByWidth(a, w, ub)) :
                     a \in {x}, n \in {rotCount(y, w)}} : TRUE

(***************************************************************************)
(* Array element access.  No index of the code leaves its array; a read    *)
(* outside gives 0 here and a write outside changes nothing, so that the   *)
(* index sets recorded in acc can be examined in every state.              *)
(***************************************************************************)
rd(arr, idx, dflt) == IF idx \in DOMAIN arr THEN arr[idx] ELSE dflt

wr(arr, idx, v) == IF idx \in DOMAIN arr THEN [arr EXCEPT ![idx] = v] ELSE arr

(***************************************************************************)
(* packWord / unpackWord.                                                  *)
(***************************************************************************)
\* for (auto i = 1; i <= u; ++i) word = (word << 8) + input_stream[start + u - i]
RECURSIVE packLoop(_, _, _, _, _)
packLoop(input_stream, start, w, i, word) ==
    IF i <= u(w)
    THEN packLoop(input_stream, start, w, i + 1,
                  wadd(shl(word, 8), ToWord(rd(input_stream, start + u(w) - i, 0), w)))
    ELSE word

packWord(input_stream, start, w) == packLoop(input_stream, start, w, 1, Zero(w))

\* the stream positions packWord reads and unpackWord writes
wordIdx(start, w) == {start + u(w) - i : i \in 1..u(w)}

\* (word & (0xFFull << i * 8)) >> (i * 8), converted to a byte
unpackByte(word, i, w) == shr(wand(word, shl(ToWord(255, w), i * 8)), i * 8)[0]

\* for (auto i = 0; i < u; ++i) outputStream[start + i] = ...
unpackWord(outputStream, start, word, w) ==
    tab([p \in DOMAIN outputStream |->
            IF p - start \in 0..(u(w) - 1)
            THEN unpackByte(word, p - start, w)
            ELSE outputStream[p]], size(outputStream))

(***************************************************************************)
(* A call.  op, w, r, b, K, input: the function called, the template       *)
(* arguments and the two arguments.  output, A, B: the locals of encode /  *)
(* decode.  L, S, li, si, i, j, k, sA, sB: the locals of setupS (sA and sB *)
(* are its A and B).  ri: the uint8_t loop variable i of encodeWords /     *)
(* decodeWords.  pc: the position.  Kept beside the program's state: acc   *)
(* holds what the last step touched (indices of K, L, S, positions of the  *)
(* input and the output stream, shift amounts); trip and plain describe    *)
(* the caller                                                              *)
(* (trip = 1: the encode of decode(K, encode(K, plain)), 2: its decode).   *)
(***************************************************************************)
NoAcc == [K |-> {}, L |-> {}, S |-> {}, src |-> {}, dst |-> {}, sh |-> {}]

NewCall(op, trip, w, r, b, K, input, plain) ==
    [op |-> op, trip |-> trip, w |-> w, r |-> r, b |-> b, K |-> K,
     input |-> input, plain |-> plain, pc |-> "call", output |-> <<>>,
     A |-> Zero(w), B |-> Zero(w), L |-> <<>>, S |-> <<>>,
     li |-> 0, si |-> 0, i |-> 0, j |-> 0, k |-> 0,
     sA |-> Zero(w), sB |-> Zero(w), ri |-> 0, acc |-> NoAcc]

\* begin with B packed from offset 0, as A is
begin_sameOffset(cl) ==
    [cl EXCEPT
        !.output = tab([p \in 0..(2 * u(cl.w) - 1) |-> 0], 2 * u(cl.w)),
        !.A = packWord(cl.input, 0, cl.w),
        !.B = packWord(cl.input, 0, cl.w),
        !.L = tab([q \in 0..(c(cl.w, cl.b) - 1) |-> Zero(cl.w)], c(cl.w, cl.b)),
        !.li = cl.b - 1,
        !.pc = "packKey",
        !.acc = [NoAcc EXCEPT !.src = wordIdx(0, cl.w) \cup wordIdx(u(cl.w), cl.w)]]

\* encode lines 77-80 and decode lines 107-110 up to the call of setupS, then
\* setupS lines 134-135 and the initialisation of its first loop
begin(cl) ==
    [cl EXCEPT
        !.output = tab([p \in 0..(2 * u(cl.w) - 1) |-> 0], 2 * u(cl.w)),
        !.A = packWord(cl.input, 0, cl.w),
        !.B = packWord(cl.input, u(cl.w), cl.w),
        !.L = tab([q \in 0..(c(cl.w, cl.b) - 1) |-> Zero(cl.w)], c(cl.w, cl.b)),
        !.li = cl.b - 1,
        !.pc = "packKey",
        !.acc = [NoAcc EXCEPT !.src = wordIdx(0, cl.w) \cup wordIdx(u(cl.w), cl.w)]]

\* setupS line 137: L[i / u] = (L[i / u] << 8) + K[i]
setupS_packKey(cl) ==
    LET q == cl.li \div u(cl.w)
    IN  [cl EXCEPT
            !.L = wr(cl.L, q, wadd(shl(rd(cl.L, q, Zero(cl.w)), 8),
                                   ToWord(rd(cl.K, cl.li, 0), cl.w))),
            !.li = cl.li - 1,
            !.acc = [NoAcc EXCEPT !.L = {q}, !.K = {cl.li}]]

\* setupS lines 139-141: array<Word, t> S{}; S[0] = P; i = 1
setupS_initS(cl) ==
    [cl EXCEPT
        !.S = [q \in 0..(t(cl.r) - 1) |-> IF q = 0 THEN WordT_P(cl.w) ELSE Zero(cl.w)],
        !.si = 1,
        !.pc = "fillS",
        !.acc = [NoAcc EXCEPT !.S = {0}]]

\* setupS line 142: S[i] = S[i - 1] + Q
setupS_fillS(cl) ==
    [cl EXCEPT
        !.S = wr(cl.S, cl.si, wadd(rd(cl.S, cl.si - 1, Zero(cl.w)), WordT_Q(cl.w))),
        !.si = cl.si + 1,
        !.acc = [NoAcc EXCEPT !.S = {cl.si, cl.si - 1}]]

\* setupS lines 144-146: uint16_t i = 0, j = 0; Word A = 0, B = 0; k = 0
setupS_mixBegin(cl) ==
    [cl EXCEPT !.i = 0, !.j = 0, !.sA = Zero(cl.w), !.sB = Zero(cl.w), !.k = 0,
               !.pc = "mix", !.acc = NoAcc]

\* setupS_mix with j = (j + 1) % t in place of j = (j + 1) % c
setupS_mix_modT(cl, ub) ==
    LET three == ToWord(3, cl.w)
        nA == left_shift(wadd(wadd(rd(cl.S, cl.i, Zero(cl.w)), cl.sA), cl.sB),
                         three, cl.w, ub)
        y == wadd(nA, cl.sB)
        nB == left_shift(wadd(wadd(rd(cl.L, cl.j, Zero(cl.w)), nA), cl.sB),
                         y, cl.w, ub)
    IN  [cl EXCEPT
            !.sA = nA,
            !.S = wr(cl.S, cl.i, nA),
            !.sB = nB,
            !.L = wr(cl.L, cl.j, nB),
            !.i = (cl.i + 1) % t(cl.r),
            !.j = (cl.j + 1) % t(cl.r),
            !.k = cl.k + 1,
            !.acc = [NoAcc EXCEPT !.S = {cl.i}, !.L = {cl.j},
                        !.sh = shiftAmounts(three, cl.w) \cup shiftAmounts(y, cl.w)]]

\* setupS lines 148-151
setupS_mix(cl, ub) ==
    LET three == ToWord(3, cl.w)
        nA == left_shift(wadd(wadd(rd(cl.S, cl.i, Zero(cl.w)), cl.sA), cl.sB),
                         three, cl.w, ub)
        y == wadd(nA, cl.sB)
        nB == left_shift(wadd(wadd(rd(cl.L, cl.j, Zero(cl.w)), nA), cl.sB),
                         y, cl.w, ub)
    IN  [cl EXCEPT
            !.sA = nA,
            !.S = wr(cl.S, cl.i, nA),
            !.sB = nB,
            !.L = wr(cl.L, cl.j, nB),
            !.i = (cl.i + 1) % t(cl.r),
            !.j = (cl.j + 1) % c(cl.w, cl.b),
            !.k = cl.k + 1,
            !.acc = [NoAcc EXCEPT !.S = {cl.i}, !.L = {cl.j},
                        !.sh = shiftAmounts(three, cl.w) \cup shiftAmounts(y, cl.w)]]

\* encodeWords lines 91-94: A += S[0]; B += S[1]; uint8_t i = 1
encodeWords_pre(cl) ==
    [cl EXCEPT
        !.A = wadd(cl.A, rd(cl.S, 0, Zero(cl.w))),
        !.B = wadd(cl.B, rd(cl.S, 1, Zero(cl.w))),
        !.ri = 1 % 256,
        !.pc = "rounds",
        !.acc = [NoAcc EXCEPT !.S = {0, 1}]]

\* encodeWords_round with B computed from the A of before the round
encodeWords_round_oldA(cl, ub) ==
    LET nA == wadd(left_shift(wxor(cl.A, cl.B), cl.B, cl.w, ub),
                   rd(cl.S, 2 * cl.ri, Zero(cl.w)))
        nB == wadd(left_shift(wxor(cl.B, cl.A), cl.A, cl.w, ub),
                   rd(cl.S, 2 * cl.ri + 1, Zero(cl.w)))
    IN  [cl EXCEPT
            !.A = nA,
            !.B = nB,
            !.ri = (cl.ri + 1) % 256,
            !.acc = [NoAcc EXCEPT !.S = {2 * cl.ri, 2 * cl.ri + 1},
                        !.sh = shiftAmounts(cl.B, cl.w) \cup shiftAmounts(cl.A, cl.w)]]

\* encodeWords lines 96-97 and the ++i of the uint8_t i
encodeWords_round(cl, ub) ==
    LET nA == wadd(left_shift(wxor(cl.A, cl.B), cl.B, cl.w, ub),
                   rd(cl.S, 2 * cl.ri, Zero(cl.w)))
        nB == wadd(left_shift(wxor(cl.B, nA), nA, cl.w, ub),
                   rd(cl.S, 2 * cl.ri + 1, Zero(cl.w)))
    IN  [cl EXCEPT
            !.A = nA,
            !.B = nB,
            !.ri = (cl.ri + 1) % 256,
            !.acc = [NoAcc EXCEPT !.S = {2 * cl.ri, 2 * cl.ri + 1},
                        !.sh = shiftAmounts(cl.B, cl.w) \cup shiftAmounts(nA, cl.w)]]

\* encode_return with the words unpacked into the caller's block, in place
encode_return_inPlace(cl) ==
    [cl EXCEPT
        !.input = unpackWord(unpackWord(cl.input, 0, cl.A, cl.w), u(cl.w), cl.B, cl.w),
        !.output = unpackWord(unpackWord(cl.input, 0, cl.A, cl.w), u(cl.w), cl.B, cl.w),
        !.pc = "returned",
        !.acc = [NoAcc EXCEPT !.dst = wordIdx(0, cl.w) \cup wordIdx(u(cl.w), cl.w)]]

\* encode lines 81-84: unpackWord(ciphertext, 0, A); unpackWord(ciphertext, u, B)
encode_return(cl) ==
    [cl EXCEPT
        !.output = unpackWord(unpackWord(cl.output, 0, cl.A, cl.w), u(cl.w), cl.B, cl.w),
        !.pc = "returned",
        !.acc = [NoAcc EXCEPT !.dst = wordIdx(0, cl.w) \cup wordIdx(u(cl.w), cl.w)]]

\* decodeWords line 121: uint8_t i = r
decodeWords_pre(cl) ==
    [cl EXCEPT !.ri = cl.r % 256, !.pc = "rounds", !.acc = NoAcc]

\* decodeWords_round with A undone before B, in the order of the encode round
decodeWords_round_AFirst(cl, ub) ==
    LET nA == wxor(right_shift(wsub(cl.A, rd(cl.S, 2 * cl.ri, Zero(cl.w))),
                               cl.B, cl.w, ub), cl.B)
        nB == wxor(right_shift(wsub(cl.B, rd(cl.S, 2 * cl.ri + 1, Zero(cl.w))),
                               nA, cl.w, ub), nA)
    IN  [cl EXCEPT
            !.B = nB,
            !.A = nA,
            !.ri = (cl.ri - 1) % 256,
            !.acc = [NoAcc EXCEPT !.S = {2 * cl.ri + 1, 2 * cl.ri},
                        !.sh = shiftAmounts(cl.B, cl.w) \cup shiftAmounts(nA, cl.w)]]

\* decodeWords lines 123-124 and the --i
decodeWords_round(cl, ub) ==
    LET nB == wxor(right_shift(wsub(cl.B, rd(cl.S, 2 * cl.ri + 1, Zero(cl.w))),
                               cl.A, cl.w, ub), cl.A)
        nA == wxor(right_shift(wsub(cl.A, rd(cl.S, 2 * cl.ri, Zero(cl.w))),
                               nB, cl.w, ub), nB)
    IN  [cl EXCEPT
            !.B = nB,
            !.A = nA,
            !.ri = (cl.ri - 1) % 256,
            !.acc = [NoAcc EXCEPT !.S = {2 * cl.ri + 1, 2 * cl.ri},
                        !.sh = shiftAmounts(cl.A, cl.w) \cup shiftAmounts(nB, cl.w)]]

\* decodeWords lines 126-127, then decode lines 111-114
decode_return(cl) ==
    LET nB == wsub(cl.B, rd(cl.S, 1, Zero(cl.w)))
        nA == wsub(cl.A, rd(cl.S, 0, Zero(cl.w)))
    IN  [cl EXCEPT
            !.B = nB,
            !.A = nA,
            !.output = unpackWord(unpackWord(cl.output, 0, nA, cl.w), u(cl.w), nB, cl.w),
            !.pc = "returned",
            !.acc = [NoAcc EXCEPT !.S = {1, 0},
                        !.dst = wordIdx(0, cl.w) \cup wordIdx(u(cl.w), cl.w)]]

(***************************************************************************)
(* Control flow: the statement a call executes next.                       *)
(***************************************************************************)
stmt(cl) ==
    CASE cl.pc = "call" ->
            IF cl.op = "encode" THEN "encode_begin" ELSE "decode_begin"
      [] cl.pc = "packKey" ->
            IF cl.li >= 0 THEN "setupS_packKey" ELSE "setupS_initS"
      [] cl.pc = "fillS" ->
            IF cl.si < t(cl.r) THEN "setupS_fillS" ELSE "setupS_mixBegin"
      [] cl.pc = "mix" ->
            IF cl.k < 3 * Max(t(cl.r), c(cl.w, cl.b)) THEN "setupS_mix"
            ELSE IF cl.op = "encode" THEN "encodeWords_pre" ELSE "decodeWords_pre"
      [] cl.pc = "rounds" /\ cl.op = "encode" ->
            IF cl.ri <= cl.r THEN "encodeWords_round" ELSE "encode_return"
      [] cl.pc = "rounds" /\ cl.op = "decode" ->
            IF cl.ri > 0 THEN "decodeWords_round" ELSE "decode_return"
      [] OTHER -> "returned"

\* one step of a call on its own; a call that has returned stays as it is
step(cl, ub) ==
    LET s == stmt(cl)
    IN  CASE s \in {"encode_begin", "decode_begin"} -> begin(cl)
          [] s = "setupS_packKey" -> setupS_packKey(cl)
          [] s = "setupS_initS" -> setupS_initS(cl)
          [] s = "setupS_fillS" -> setupS_fillS(cl)
          [] s = "setupS_mixBegin" -> setupS_mixBegin(cl)
          [] s = "setupS_mix" -> setupS_mix(cl, ub)
          [] s = "encodeWords_pre" -> encodeWords_pre(cl)
          [] s = "encodeWords_round" -> encodeWords_round(cl, ub)
          [] s = "encode_return" -> encode_return(cl)
          [] s = "decodeWords_pre" -> decodeWords_pre(cl)
          [] s = "decodeWords_round" -> decodeWords_round(cl, ub)
          [] s = "decode_return" -> decode_return(cl)
          [] OTHER -> cl

\* exactly n steps of a call on its own; four or more are taken in four
\* parts of q, q, q and n - 3 q steps (the test on the pc of the first three
\* makes TLC compute each part before it enters the next)
RECURSIVE runN(_, _, _)
runN(cl, ub, n) ==
    IF n <= 0 THEN cl
    ELSE IF n = 1 THEN step(cl, ub)
    ELSE IF n = 2 THEN step(step(cl, ub), ub)
    ELSE IF n = 3 THEN step(step(step(cl, ub), ub), ub)
    ELSE LET q == n \div 4
             c1 == runN(cl, ub, q)
             c2 == runN(c1, ub, q)
             c3 == runN(c2, ub, q)
         IN  IF c1.pc = "" \/ c2.pc = "" \/ c3.pc = "" THEN cl
             ELSE runN(c3, ub, n - 3 * q)

\* a call that returns takes no more steps than this: the four loops and the
\* code between
stepBound(cl) ==
    cl.b + t(cl.r) + 3 * Max(t(cl.r), c(cl.w, cl.b)) + cl.r + 8

\* the call run on its own until it has returned (a call that does not
\* return: for stepBound steps, after which it is still in its loop)
run(cl, ub) == runN(cl, ub, stepBound(cl))

\* what a call gives its caller: the block it has returned, or no block
NoReturn == "does not return"

result(cl) == IF cl.pc = "returned" THEN cl.output ELSE NoReturn

\* RC5<w, r, b>::encode(K, plaintext) and RC5<w, r, b>::decode(K, ciphertext)
encode(w, r, b, K, plaintext, ub) ==
    result(run(NewCall("encode", 0, w, r, b, K, plaintext, plaintext), ub))

decode(w, r, b, K, ciphertext, ub) ==
    result(run(NewCall("decode", 0, w, r, b, K, ciphertext, ciphertext), ub))

(***************************************************************************)
(* The calls a behaviour starts from: the instantiations and arguments of  *)
(* test1 .. test6, small instantiations of every width with patterned keys *)
(* and blocks, two instantiations with r = 255 and one with b = 255.  Each  *)
(* as a call of encode, a call of decode, and an encode whose result is    *)
(* then decoded.                                                           *)
(***************************************************************************)
Widths == {16, 32, 64}

PatByte(seed, k) == (seed * (83 + 37 * k) + (seed \div 2) * 101) % 256

KeyOf(seed, b) == tab([k \in 0..(b - 1) |-> PatByte(seed, k)], b)

BlockOf(seed, w) == tab([k \in 0..(2 * u(w) - 1) |-> PatByte(seed, k + 5)], 2 * u(w))

\* test1 and test3 (lines 205, 228); test2 and test4 (lines 219, 237); test5
TestKey1 == FromSeq(<<\h00, \h01, \h02, \h03, \h04, \h05, \h06, \h07,
                      \h08, \h09, \h0A, \h0B, \h0C, \h0D, \h0E, \h0F>>)
TestKey2 == FromSeq(<<\h2B, \hD6, \h45, \h9F, \h82, \hC5, \hB3, \h00,
                      \h95, \h2C, \h49, \h10, \h48, \h81, \hFF, \h48>>)
TestKey5 == tab([k \in 0..23 |-> k], 24)

\* the plaintext of test1 is the ciphertext of test3; that of test2, of test4
TestBlock1 == FromSeq(<<\h00, \h11, \h22, \h33, \h44, \h55, \h66, \h77>>)
TestBlock2 == FromSeq(<<\hEA, \h02, \h47, \h14, \hAD, \h5C, \h4D, \h84>>)
TestBlock5 == tab([k \in 0..15 |-> k], 16)

\* the expected results of test1, test2, test3, test4 and test5
TestResult1 == FromSeq(<<\h2D, \hDC, \h14, \h9B, \hCF, \h08, \h8B, \h9E>>)
TestResult2 == FromSeq(<<\h11, \hE4, \h3B, \h86, \hD2, \h31, \hEA, \h64>>)
TestResult3 == FromSeq(<<\h96, \h95, \h0D, \hDA, \h65, \h4A, \h3D, \h62>>)
TestResult4 == FromSeq(<<\h63, \h8B, \h3A, \h5E, \hF7, \h2B, \h66, \h3F>>)
TestResult5 == FromSeq(<<\hA4, \h67, \h72, \h82, \h0E, \hDB, \hCE, \h02,
                         \h35, \hAB, \hEA, \h32, \hAE, \h71, \h78, \hDA>>)

\* <<op, trip>>
Uses == {<<"encode", 0>>, <<"decode", 0>>, <<"encode", 1>>}

TestStarts ==
    {NewCall(x[1], x[2], 32, 12, 16, TestKey1, TestBlock1, TestBlock1) : x \in Uses}
    \cup {NewCall(x[1], x[2], 32, 12, 16, TestKey2, TestBlock2, TestBlock2) : x \in Uses}
    \cup {NewCall("encode", x, 64, 24, 24, TestKey5, TestBlock5, TestBlock5) : x \in {0, 1}}
    \cup {NewCall("encode", 0, 64, 24, 0, <<>>, TestBlock5, TestBlock5)}

SmallStarts ==
    {NewCall(x[1], x[2], w, r, b, KeyOf(ks, b), BlockOf(bs, w), BlockOf(bs, w)) :
        x \in Uses, w \in Widths, r \in 0..MaxR, b \in 0..MaxB,
        ks \in 0..MaxSeed, bs \in 0..MaxSeed}

\* a block of RC5<16, 255, 0>: in encodeWords, with the empty key, A and B are
\* 0x1F8C and 0x62A4 after the iteration i = 255, 0xEF68 and 0xAE2A after the
\* next 256 iterations, and 0x1F8C and 0x62A4 again after 256 more
CycleBlock == FromSeq(<<5, 9, 117, 82>>)

\* the instantiations with r = 255 and with b = 255 (encode with r = 255 on
\* CycleBlock, where the states of its round loop are finitely many)
BigStarts ==
    {NewCall("encode", tr, 16, 255, 0, <<>>, CycleBlock, CycleBlock) : tr \in {0, 1}}
    \cup {NewCall("decode", 0, 16, 255, 0, <<>>, BlockOf(1, 16), BlockOf(1, 16))}
    \cup {NewCall("decode", 0, 32, 255, 1, KeyOf(1, 1), BlockOf(1, 32), BlockOf(1, 32))}
    \cup {NewCall(x[1], x[2], 16, 0, 255, KeyOf(1, 255), BlockOf(1, 16), BlockOf(1, 16)) :
             x \in Uses}

Starts == TestStarts \cup SmallStarts \cup BigStarts

\* the calls that run two at a time: calls of one instantiation, the key and
\* the block of a call made from its seed
ConcStarts(seeds) ==
    {NewCall(x[1], x[2], 16, MaxR, MaxB, KeyOf(ks, MaxB), BlockOf(ks + 1, 16),
             BlockOf(ks + 1, 16)) : x \in Uses, ks \in seeds}

Init == call \in [{1} -> Starts]

\* the two calls are interchangeable: the first is one of seed 0
ConcInit ==
    \E c1 \in ConcStarts({0}), c2 \in ConcStarts(0..MaxSeed) : call = <<c1, c2>>

(***************************************************************************)
(* The steps of call p.                                                    *)
(***************************************************************************)
do_encode_begin(p) ==
    /\ stmt(call[p]) = "encode_begin"
    /\ call' = [call EXCEPT ![p] = begin(call[p])]

do_decode_begin(p) ==
    /\ stmt(call[p]) = "decode_begin"
    /\ call' = [call EXCEPT ![p] = begin(call[p])]

do_setupS_packKey(p) ==
    /\ stmt(call[p]) = "setupS_packKey"
    /\ call' = [call EXCEPT ![p] = setupS_packKey(call[p])]

do_setupS_initS(p) ==
    /\ stmt(call[p]) = "setupS_initS"
    /\ call' = [call EXCEPT ![p] = setupS_initS(call[p])]

do_setupS_fillS(p) ==
    /\ stmt(call[p]) = "setupS_fillS"
    /\ call' = [call EXCEPT ![p] = setupS_fillS(call[p])]

do_setupS_mixBegin(p) ==
    /\ stmt(call[p]) = "setupS_mixBegin"
    /\ call' = [call EXCEPT ![p] = setupS_mixBegin(call[p])]

\* do_setupS_mix with one table S for all calls (a static local of setupS)
do_setupS_mix_staticS(p) ==
    /\ stmt(call[p]) = "setupS_mix"
    /\ \E ub \in ShiftOutcomes :
          call' = [q \in DOMAIN call |->
                      IF q = p THEN setupS_mix(call[p], ub)
                      ELSE [call[q] EXCEPT !.S = setupS_mix(call[p], ub).S]]

do_setupS_mix(p) ==
    /\ stmt(call[p]) = "setupS_mix"
    /\ \E ub \in ShiftOutcomes : call' = [call EXCEPT ![p] = setupS_mix(call[p], ub)]

do_encodeWords_pre(p) ==
    /\ stmt(call[p]) = "encodeWords_pre"
    /\ call' = [call EXCEPT ![p] = encodeWords_pre(call[p])]

do_encodeWords_round(p) ==
    /\ stmt(call[p]) = "encodeWords_round"
    /\ \E ub \in ShiftOutcomes :
          call' = [call EXCEPT ![p] = encodeWords_round(call[p], ub)]

do_encode_return(p) ==
    /\ stmt(call[p]) = "encode_return"
    /\ call' = [call EXCEPT ![p] = encode_return(call[p])]

do_decodeWords_pre(p) ==
    /\ stmt(call[p]) = "decodeWords_pre"
    /\ call' = [call EXCEPT ![p] = decodeWords_pre(call[p])]

do_decodeWords_round(p) ==
    /\ stmt(call[p]) = "decodeWords_round"
    /\ \E ub \in ShiftOutcomes :
          call' = [call EXCEPT ![p] = decodeWords_round(call[p], ub)]

do_decode_return(p) ==
    /\ stmt(call[p]) = "decode_return"
    /\ call' = [call EXCEPT ![p] = decode_return(call[p])]

\* the caller of decode(K, encode(K, plain)): encode has returned, its result
\* is the argument of a call of decode with the same key
roundTrip_decode(p) ==
    /\ call[p].pc = "returned"
    /\ call[p].trip = 1
    /\ call' = [call EXCEPT ![p] =
                   NewCall("decode", 2, call[p].w, call[p].r, call[p].b, call[p].K,
                           call[p].output, call[p].plain)]

Next ==
    \/ \E p \in DOMAIN call : do_encode_begin(p)
    \/ \E p \in DOMAIN call : do_decode_begin(p)
    \/ \E p \in DOMAIN call : do_setupS_packKey(p)
    \/ \E p \in DOMAIN call : do_setupS_initS(p)
    \/ \E p \in DOMAIN call : do_setupS_fillS(p)
    \/ \E p \in DOMAIN call : do_setupS_mixBegin(p)
    \/ \E p \in DOMAIN call : do_setupS_mix(p)
    \/ \E p \in DOMAIN call : do_encodeWords_pre(p)
    \/ \E p \in DOMAIN call : do_encodeWords_round(p)
    \/ \E p \in DOMAIN call : do_encode_return(p)
    \/ \E p \in DOMAIN call : do_decodeWords_pre(p)
    \/ \E p \in DOMAIN call : do_decodeWords_round(p)
    \/ \E p \in DOMAIN call : do_decode_return(p)
    \/ \E p \in DOMAIN call : roundTrip_decode(p)

\* one call at a time
Spec == Init /\ [][Next]_vars

\* one call at a time; a call that can take a step takes it
FairSpec == Init /\ [][Next]_vars /\ WF_vars(Next)

\* two calls, their steps interleaved in any order
ConcSpec == ConcInit /\ [][Next]_vars

(***************************************************************************)
(* The RC5 transform as the specification words it (sections 4.2 to 4.6),  *)
(* for comparison with what the calls compute: words taken from the buffer *)
(* as little-endian byte groups, rotation as a permutation of the bits,    *)
(* S[i] = P + i * Q, the rounds counted by a number i = 1..r.  The table S  *)
(* is computed before the rounds are entered (its size is taken first).    *)
(***************************************************************************)
rc5_bit(x, k) == (x[k \div 8] \div Pow2(k % 8)) % 2

\* rotateLeft(x, n): bit k of the result is bit (k - n) mod w of x
rc5_rotateLeft(x, n, w) ==
    LET src(k) == (k - (n % w) + w) % w
    IN  tab([m \in 0..(u(w) - 1) |->
                rc5_bit(x, src(8 * m)) + 2 * rc5_bit(x, src(8 * m + 1))
                + 4 * rc5_bit(x, src(8 * m + 2)) + 8 * rc5_bit(x, src(8 * m + 3))
                + 16 * rc5_bit(x, src(8 * m + 4)) + 32 * rc5_bit(x, src(8 * m + 5))
                + 64 * rc5_bit(x, src(8 * m + 6)) + 128 * rc5_bit(x, src(8 * m + 7))],
            u(w))

rc5_rotateRight(x, n, w) == rc5_rotateLeft(x, w - (n % w), w)

\* the word at offset of a buffer, and a block made of the words A and B
rc5_word(buffer, offset, w) == tab([k \in 0..(u(w) - 1) |-> buffer[offset + k]], u(w))

rc5_block(A, B, w) ==
    tab([k \in 0..(2 * u(w) - 1) |-> IF k < u(w) THEN A[k] ELSE B[k - u(w)]], 2 * u(w))

\* n * Q modulo 2^w for n < 2^15, by long multiplication on 16-bit digits of Q
rc5_timesQ(n, w) ==
    LET Q == WordT_Q(w)
        digit(k) == IF 2 * k + 1 < u(w) THEN Q[2 * k] + 256 * Q[2 * k + 1] ELSE 0
        p0 == n * digit(0)
        p1 == n * digit(1) + p0 \div 65536
        p2 == n * digit(2) + p1 \div 65536
        p3 == n * digit(3) + p2 \div 65536
        p(k) == IF k = 0 THEN p0 ELSE IF k = 1 THEN p1 ELSE IF k = 2 THEN p2 ELSE p3
    IN  tab([k \in 0..(u(w) - 1) |-> (p(k \div 2) \div Pow2(8 * (k % 2))) % 256], u(w))

\* section 4.4, steps 1 and 2: the L-table of the key and S before the mixing
rc5_L(w, b, K) ==
    tab([q \in 0..((Max(b, 1) + u(w) - 1) \div u(w) - 1) |->
            tab([m \in 0..(u(w) - 1) |->
                    IF q * u(w) + m < b THEN K[q * u(w) + m] ELSE 0], u(w))],
        (Max(b, 1) + u(w) - 1) \div u(w))

rc5_S0(w, r) ==
    tab([q \in 0..(2 * (r + 1) - 1) |-> wadd(WordT_P(w), rc5_timesQ(q, w))], 2 * (r + 1))

\* section 4.4, step 3: one mixing step on m = [S, L, A, B, i, j]
rc5_mix(m, w) ==
    LET A == rc5_rotateLeft(wadd(wadd(m.S[m.i], m.A), m.B), 3, w)
        AB == wadd(A, m.B)
        B == rc5_rotateLeft(wadd(m.L[m.j], AB), rotCount(AB, w), w)
    IN  [S |-> [m.S EXCEPT ![m.i] = A], L |-> [m.L EXCEPT ![m.j] = B], A |-> A, B |-> B,
         i |-> (m.i + 1) % size(m.S), j |-> (m.j + 1) % size(m.L)]

\* n mixing steps, of which the last n - 3 * q may be none
RECURSIVE rc5_mixN(_, _, _)
rc5_mixN(m, w, n) ==
    IF n <= 0 THEN m
    ELSE IF n = 1 THEN rc5_mix(m, w)
    ELSE LET q == n \div 4
             m1 == rc5_mixN(m, w, q)
             m2 == rc5_mixN(m1, w, q)
             m3 == rc5_mixN(m2, w, q + 1)
         IN  IF m1.i < 0 \/ m2.i < 0 \/ m3.i < 0 THEN m
             ELSE rc5_mixN(m3, w, n - (3 * q + 1))

\* section 4.4: the subkey table of key K
rc5_S(w, r, b, K) ==
    LET L0 == rc5_L(w, b, K)
        S0 == rc5_S0(w, r)
    IN  rc5_mixN([S |-> S0, L |-> L0, A |-> Zero(w), B |-> Zero(w), i |-> 0, j |-> 0],
                 w, 3 * Max(size(S0), size(L0))).S

\* section 4.5, step 4: the rounds lo..hi in ascending order on x = [A, B]
RECURSIVE rc5_encRounds(_, _, _, _, _)
rc5_encRounds(x, S, w, lo, hi) ==
    IF lo > hi THEN x
    ELSE IF lo = hi
    THEN LET A == wadd(rc5_rotateLeft(wxor(x.A, x.B), rotCount(x.B, w), w), S[2 * lo])
             B == wadd(rc5_rotateLeft(wxor(x.B, A), rotCount(A, w), w), S[2 * lo + 1])
         IN  [A |-> A, B |-> B]
    ELSE LET q == (hi - lo + 1) \div 4
             x1 == rc5_encRounds(x, S, w, lo, lo + q - 1)
             x2 == rc5_encRounds(x1, S, w, lo + q, lo + 2 * q - 1)
             x3 == rc5_encRounds(x2, S, w, lo + 2 * q, lo + 3 * q)
         IN  IF x1.A = <<>> \/ x2.A = <<>> \/ x3.A = <<>> THEN x
             ELSE rc5_encRounds(x3, S, w, lo + 3 * q + 1, hi)

\* section 4.6, step 3: the rounds hi..lo in descending order
RECURSIVE rc5_decRounds(_, _, _, _, _)
rc5_decRounds(x, S, w, lo, hi) ==
    IF lo > hi THEN x
    ELSE IF lo = hi
    THEN LET B == wxor(rc5_rotateRight(wsub(x.B, S[2 * lo + 1]), rotCount(x.A, w), w), x.A)
             A == wxor(rc5_rotateRight(wsub(x.A, S[2 * lo]), rotCount(B, w), w), B)
         IN  [A |-> A, B |-> B]
    ELSE LET q == (hi - lo + 1) \div 4
             x1 == rc5_decRounds(x, S, w, hi - q + 1, hi)
             x2 == rc5_decRounds(x1, S, w, hi - 2 * q + 1, hi - q)
             x3 == rc5_decRounds(x2, S, w, hi - 3 * q, hi - 2 * q)
         IN  IF x1.A = <<>> \/ x2.A = <<>> \/ x3.A = <<>> THEN x
             ELSE rc5_decRounds(x3, S, w, lo, hi - 3 * q - 1)

\* section 4.5
rc5_encode(w, r, b, K, plaintext) ==
    LET S == rc5_S(w, r, b, K)
        x == rc5_encRounds([A |-> wadd(rc5_word(plaintext, 0, w), S[0]),
                            B |-> wadd(rc5_word(plaintext, u(w), w), S[1])], S, w, 1, r)
    IN  IF size(S) = 0 THEN <<>> ELSE rc5_block(x.A, x.B, w)

\* section 4.6
rc5_decode(w, r, b, K, ciphertext) ==
    LET S == rc5_S(w, r, b, K)
        x == rc5_decRounds([A |-> rc5_word(ciphertext, 0, w),
                            B |-> rc5_word(ciphertext, u(w), w)], S, w, 1, r)
    IN  IF size(S) = 0 THEN <<>> ELSE rc5_block(wsub(x.A, S[0]), wsub(x.B, S[1]), w)

(***************************************************************************)
(* The properties.                                                         *)
(***************************************************************************)
Returned(p) == call[p].pc = "returned"

\* the blocks compared with the block of call p: it with one byte changed, the
\* first or the last byte of either word
OtherBlocks(p) ==
    {[call[p].input EXCEPT ![k] = (call[p].input[k] + 1) % 256] :
        k \in {0, u(call[p].w) - 1, u(call[p].w), 2 * u(call[p].w) - 1}}

\* call p has returned for the arguments of a test of the source
IsTest(p, op, w, r, b, K, input) ==
    /\ Returned(p) /\ call[p].op = op /\ call[p].w = w /\ call[p].r = r /\ call[p].b = b
    /\ call[p].K = K /\ call[p].input = input

\* the call p was made as
StartOf(p) ==
    NewCall(call[p].op, call[p].trip, call[p].w, call[p].r, call[p].b, call[p].K,
            call[p].input, call[p].plain)

\* C1: every decode(K, encode(K, plain)) comes to return a block, and that
\* block is plain, byte for byte, for every (w, r, b) including r = 255.
C1_RoundTrip ==
    /\ [](\A p \in DOMAIN call :
            (call[p].trip = 2 /\ Returned(p)) => call[p].output = call[p].plain)
    /\ <>(\A p \in DOMAIN call : call[p].trip # 0 => (call[p].trip = 2 /\ Returned(p)))

\* C2: the block a call of encode returns is the forward transform of the
\* specification applied to its key and its plaintext, the table S its rounds
\* start from is the table of the specification's key schedule, and test1's
\* arguments give 2D DC 14 9B CF 08 8B 9E (those of test2 and test5 give
\* the ciphertexts of these tests).
C2_EncodeIsForwardTransform ==
    \A p \in DOMAIN call :
        call[p].op = "encode" =>
            /\ (call[p].pc = "rounds" /\ call[p].ri = 1) =>
                   call[p].S = rc5_S(call[p].w, call[p].r, call[p].b, call[p].K)
            /\ Returned(p) =>
                   call[p].output =
                       rc5_encode(call[p].w, call[p].r, call[p].b, call[p].K, call[p].input)
            /\ IsTest(p, "encode", 32, 12, 16, TestKey1, TestBlock1) =>
                   call[p].output = TestResult1
            /\ IsTest(p, "encode", 32, 12, 16, TestKey2, TestBlock2) =>
                   call[p].output = TestResult2
            /\ IsTest(p, "encode", 64, 24, 24, TestKey5, TestBlock5) =>
                   call[p].output = TestResult5

C2_Witness ==
    \E p \in DOMAIN call :
        /\ call[p].op = "encode" /\ Returned(p) /\ call[p].r = 12
        /\ call[p].K = TestKey1 /\ call[p].input = TestBlock1
        /\ call[p].output = TestResult1

\* C3: the block a call of decode returns is the inverse transform of the
\* specification applied to its key and its ciphertext, over the table S
\* that the key schedule gives (the one encode derives from that key); the
\* arguments of test3 and test4 give the plaintexts of these tests.
C3_DecodeIsInverseTransform ==
    \A p \in DOMAIN call :
        call[p].op = "decode" =>
            /\ (call[p].pc = "rounds" /\ call[p].ri = call[p].r) =>
                   call[p].S = rc5_S(call[p].w, call[p].r, call[p].b, call[p].K)
            /\ Returned(p) =>
                   call[p].output =
                       rc5_decode(call[p].w, call[p].r, call[p].b, call[p].K, call[p].input)
            /\ IsTest(p, "decode", 32, 12, 16, TestKey1, TestBlock1) =>
                   call[p].output = TestResult3
            /\ IsTest(p, "decode", 32, 12, 16, TestKey2, TestBlock2) =>
                   call[p].output = TestResult4

C3_Witness ==
    \E p \in DOMAIN call :
        /\ call[p].op = "decode" /\ Returned(p) /\ call[p].r = 12
        /\ call[p].K = TestKey1 /\ call[p].input = TestBlock1
        /\ call[p].output = TestResult3

\* C4: a call executes the body of its round loop exactly r times, for every
\* r up to 255: the loop variable i moves by one in each iteration (up from
\* 1 in encodeWords, down from r in decodeWords), the body is executed only
\* with i in 1..r, and a call returns with i past that range (r + 1 in
\* encode, 0 in decode).
C4_ExactlyRRounds ==
    \A p \in DOMAIN call :
        /\ stmt(call[p]) \in {"encodeWords_round", "decodeWords_round"} =>
               (1 <= call[p].ri /\ call[p].ri <= call[p].r)
        /\ (Returned(p) /\ call[p].op = "encode") => call[p].ri = call[p].r + 1
        /\ (Returned(p) /\ call[p].op = "decode") => call[p].ri = 0

\* C5: every shift that left_shift and right_shift evaluate is by an amount
\* in [0, w).
C5_ShiftsBelowWidth ==
    \A p \in DOMAIN call : \A n \in call[p].acc.sh : 0 <= n /\ n < call[p].w

\* C6: a call with the empty key (b = 0) has an L-table of one word, reads no
\* key byte, uses no L index but 0, and comes to return a block, for every r.
C6_EmptyKeyCompletes ==
    /\ [](\A p \in DOMAIN call :
            call[p].b = 0 =>
                /\ call[p].pc # "call" => size(call[p].L) = 1
                /\ call[p].acc.K = {}
                /\ call[p].acc.L \subseteq {0})
    /\ <>(\A p \in DOMAIN call : call[p].b = 0 => Returned(p))

\* C7: the ciphertext encode has returned for a block differs from the
\* ciphertext of every other block under the same key.
C7_EncodeInjective ==
    \A p \in DOMAIN call :
        (call[p].op = "encode" /\ Returned(p)) =>
            \A P2 \in OtherBlocks(p) : \A ub \in ShiftOutcomes :
                encode(call[p].w, call[p].r, call[p].b, call[p].K, P2, ub) # call[p].output

C7_Witness ==
    \E p \in DOMAIN call :
        /\ call[p].op = "encode" /\ Returned(p) /\ call[p].r = 24 /\ call[p].b = 24
        /\ Cardinality(OtherBlocks(p)) = 4

\* C8: with the steps of two calls interleaved, every step changes one call
\* only, to what that call's own step makes of it alone, and a call that has
\* returned has returned what it returns when run alone.
C8_CallsIndependent ==
    /\ [](\A p \in DOMAIN call :
            Returned(p) =>
                \A ub \in ShiftOutcomes : call[p].output = run(StartOf(p), ub).output)
    /\ [][\E p \in DOMAIN call :
            /\ \A q \in DOMAIN call \ {p} : call'[q] = call[q]
            /\ \/ \E ub \in ShiftOutcomes : call'[p] = step(call[p], ub)
               \/ /\ Returned(p)
                  /\ call'[p].input = call[p].output
                  /\ call'[p].K = call[p].K]_vars

C8_Witness ==
    \E p, q \in DOMAIN call :
        /\ p # q /\ call[p].K # call[q].K
        /\ Returned(p)
        /\ call[q].pc = "mix" /\ call[q].k > 0

\* C9: no step of a call changes the caller's key or the caller's input
\* block, nor the instantiation: a step writes L, S, A, B, the loop variables
\* and the output block only.
C9_KeyAndInputUnchanged ==
    [][\A p \in DOMAIN call :
          ~Returned(p) =>
              /\ call'[p].K = call[p].K
              /\ call'[p].input = call[p].input
              /\ <<call'[p].op, call'[p].w, call'[p].r, call'[p].b>>
                     = <<call[p].op, call[p].w, call[p].r, call[p].b>>]_vars

C9_Witness ==
    \E p \in DOMAIN call :
        /\ Returned(p) /\ call[p].acc.dst # {}
        /\ call[p].K = TestKey2 /\ call[p].input = TestBlock2
        /\ call[p].output # call[p].input

\* C10: every index a step uses is inside its array: S indices below
\* t = 2 (r + 1), L indices below c, key indices below b, and the positions
\* of the input and the output block that packWord and unpackWord touch
\* below 2 u.
C10_IndicesInRange ==
    \A p \in DOMAIN call :
        /\ call[p].acc.S \subseteq 0..(2 * (call[p].r + 1) - 1)
        /\ call[p].acc.S \subseteq DOMAIN call[p].S
        /\ call[p].acc.L \subseteq 0..(c(call[p].w, call[p].b) - 1)
        /\ call[p].acc.L \subseteq DOMAIN call[p].L
        /\ call[p].acc.K \subseteq 0..(call[p].b - 1)
        /\ call[p].acc.K \subseteq DOMAIN call[p].K
        /\ call[p].acc.src \subseteq 0..(2 * u(call[p].w) - 1)
        /\ call[p].acc.src \subseteq DOMAIN call[p].input
        /\ call[p].acc.dst \subseteq 0..(2 * u(call[p].w) - 1)
        /\ call[p].acc.dst \subseteq DOMAIN call[p].output

C10_Witness ==
    \E p \in DOMAIN call :
        call[p].r = 255 /\ call[p].pc = "rounds" /\ 511 \in call[p].acc.S

=============================================================================
